---- MODULE Spec2Model ----
(***************************************************************************)
(* uuid_spoofer (src/src/lib.rs): a dylib whose load-time constructor      *)
(* rebinds IORegistryEntryCreateCFProperty to a replacement that answers   *)
(* the key "IOPlatformUUID" from a cached CFString and forwards every      *)
(* other call to the captured original.                                    *)
(*                                                                         *)
(* Text is modelled as sequences of numbers: a CFString is a sequence of   *)
(* UTF-16 code units, a C string a sequence of bytes.  Pointers are        *)
(* strings ("NULL" is the null pointer), CF objects live in `heap`.        *)
(***************************************************************************)
EXTENDS Integers, Sequences, FiniteSets, TLC

\* ------------------------------------------------------------- bounds
\* Number of application threads that call the target symbol.
NumThreads == 2
\* Calls are started only while fewer than this many handles were issued.
MaxIssued == 2

Threads == 1..NumThreads

\* ---------------------------------------------------------- constants
\* const IO_PLATFORM_UUID_KEY_STR: &str = "IOPlatformUUID";
IO_PLATFORM_UUID_KEY_STR ==
    <<73, 79, 80, 108, 97, 116, 102, 111, 114, 109, 85, 85, 73, 68>>

\* const SPOOFED_UUID_STR: &str = "DEADBEEF-DEAD-BEEF-DEAD-BEEFDEADBEEF";
SPOOFED_UUID_STR ==
    <<68, 69, 65, 68, 66, 69, 69, 70, 45, 68, 69, 65, 68, 45, 66, 69, 69, 70,
      45, 68, 69, 65, 68, 45, 66, 69, 69, 70, 68, 69, 65, 68, 66, 69, 69, 70>>

\* let mut buffer: [c_char; 256] = [0; 256];
BufferSize == 256

\* The null pointer (key.is_null(), ORIGINAL_FUNC_PTR_RAW.is_null()).
NullPtr == "NULL"
\* Address of the real IOKit function and of the replacement.
OriginalFnAddr == "IOKit::IORegistryEntryCreateCFProperty"
ReplacementFnAddr == "replaced_IORegistryEntryCreateCFProperty"

\* Option<FnIORegistryEntryCreateCFProperty>
None == [some |-> FALSE, fn |-> NullPtr]
Some(f) == [some |-> TRUE, fn |-> f]

\* ------------------------------------------------------- text helpers
\* UTF-8 bytes of one BMP code unit that is not a surrogate.
Utf8OfUnit(u) ==
    IF u < 128 THEN <<u>>
    ELSE IF u < 2048 THEN <<192 + (u \div 64), 128 + (u % 64)>>
    ELSE <<224 + (u \div 4096), 128 + ((u \div 64) % 64), 128 + (u % 64)>>

\* UTF-8 bytes of the supplementary code point of a surrogate pair.
Utf8OfPair(hi, lo) ==
    LET cp == 65536 + (hi - 55296) * 1024 + (lo - 56320)
    IN  <<240 + (cp \div 262144), 128 + ((cp \div 4096) % 64),
          128 + ((cp \div 64) % 64), 128 + (cp % 64)>>

IsHighSurrogate(u) == u >= 55296 /\ u <= 56319
IsLowSurrogate(u) == u >= 56320 /\ u <= 57343

\* Whether the unit at position i is a surrogate without its partner.
UnpairedAt(units, i) ==
    \/ /\ IsHighSurrogate(units[i])
       /\ ~(i < Len(units) /\ IsLowSurrogate(units[i + 1]))
    \/ /\ IsLowSurrogate(units[i])
       /\ ~(i > 1 /\ IsHighSurrogate(units[i - 1]))

\* The bytes the unit at position i contributes: a high surrogate carries
\* the four bytes of its pair, the low surrogate after it none.
Utf8At(units, i) ==
    IF IsHighSurrogate(units[i]) THEN Utf8OfPair(units[i], units[i + 1])
    ELSE IF IsLowSurrogate(units[i]) THEN <<>>
    ELSE Utf8OfUnit(units[i])

\* The bytes of units[lo..hi], in order.
RECURSIVE Utf8Range(_, _, _)
Utf8Range(units, lo, hi) ==
    IF lo > hi THEN <<>>
    ELSE IF lo = hi THEN Utf8At(units, lo)
    ELSE LET mid == (lo + hi) \div 2
         IN  Utf8Range(units, lo, mid) \o Utf8Range(units, mid + 1, hi)

\* Strict conversion of UTF-16 code units to UTF-8 (no loss byte): an
\* unpaired surrogate makes the conversion fail.
Utf8Encode(units) ==
    IF \E i \in 1..Len(units) : UnpairedAt(units, i)
    THEN [ok |-> FALSE, bytes |-> <<>>]
    ELSE [ok |-> TRUE, bytes |-> Utf8Range(units, 1, Len(units))]

\* CFStringGetCString(theString, buffer, bufferSize, kCFStringEncodingUTF8):
\* true and the NUL-terminated bytes in the zero-initialised buffer when the
\* conversion succeeds and fits with its terminator, false otherwise.
CFStringGetCString(theString, bufferSize) ==
    LET enc == Utf8Encode(theString)
    IN  IF enc.ok /\ Len(enc.bytes) + 1 <= bufferSize
        THEN [ok |-> TRUE,
              buffer |-> [i \in 1..bufferSize |->
                            IF i <= Len(enc.bytes) THEN enc.bytes[i] ELSE 0]]
        ELSE [ok |-> FALSE, buffer |-> [i \in 1..bufferSize |-> 0]]

\* CStr::from_ptr(buffer.as_ptr()): the bytes before the first NUL.
CStrFromPtr(buffer) ==
    LET nul == CHOOSE i \in 1..Len(buffer) :
                   buffer[i] = 0 /\ \A j \in 1..(i - 1) : buffer[j] # 0
    IN  SubSeq(buffer, 1, nul - 1)

\* CString::new(s).unwrap(): the bytes of s followed by a NUL.
CStringNew(s) == Utf8Encode(s).bytes \o <<0>>

\* Text of a CFString made by CFStringCreateWithCString(alloc, cStr, UTF8)
\* from 7-bit bytes: one code unit per byte up to the NUL.
CFStringTextOfCString(cstr) == CStrFromPtr(cstr)

\* ------------------------------------------------------ call inputs
\* CFStringRef keys an application may pass: NullPtr or a reference to
\* one of these CFStrings.
KeyRefs ==
    {NullPtr, "kTarget", "kLower", "kPrefix", "kSuffix", "kSerial",
     "kLong", "kWide", "kSurrogate", "kNul"}

\* The UTF-16 code units of the CFString a key reference points to.
KeyText(k) ==
    CASE k = "kTarget" -> IO_PLATFORM_UUID_KEY_STR
      [] k = "kLower" ->
            <<105, 111, 112, 108, 97, 116, 102, 111, 114, 109, 117, 117, 105, 100>>
      [] k = "kPrefix" -> SubSeq(IO_PLATFORM_UUID_KEY_STR, 1, 13)
      [] k = "kSuffix" -> IO_PLATFORM_UUID_KEY_STR \o <<115>>
      [] k = "kSerial" ->
            <<73, 79, 80, 108, 97, 116, 102, 111, 114, 109, 83, 101, 114, 105,
              97, 108, 78, 117, 109, 98, 101, 114>>
      \* "IOPlatformUUID" followed by 'A's up to 256 units: 257 bytes with NUL
      [] k = "kLong" -> [i \in 1..BufferSize |->
                           IF i <= Len(IO_PLATFORM_UUID_KEY_STR)
                           THEN IO_PLATFORM_UUID_KEY_STR[i] ELSE 65]
      \* 128 times U+00E9: 128 units, 256 bytes, 257 with NUL
      [] k = "kWide" -> [i \in 1..(BufferSize \div 2) |-> 233]
      \* "IOPlatformUUID" followed by an unpaired high surrogate
      [] k = "kSurrogate" -> IO_PLATFORM_UUID_KEY_STR \o <<55296>>
      \* "IOPlatformUUID" followed by U+0000 and "X"
      [] k = "kNul" -> IO_PLATFORM_UUID_KEY_STR \o <<0, 88>>

\* The arguments of a call.
MkArgs(e, k, al, o) == [entry |-> e, key |-> k, allocator |-> al, options |-> o]

\* Every key once, the target key with both (entry, allocator, options);
\* each path of the replacement is reached with non-default arguments.
Inputs ==
    {MkArgs("entryA", k, "kCFAllocatorDefault", 0) :
        k \in {"kTarget", "kLower", "kPrefix", "kSuffix", "kLong", "kNul"}}
    \cup {MkArgs("entryB", k, "customAllocator", 1) :
            k \in {NullPtr, "kTarget", "kSerial", "kWide", "kSurrogate"}}

NoArgs == [entry |-> NullPtr, key |-> NullPtr, allocator |-> NullPtr, options |-> 0]

\* CFTypeRef values a call can give back.
NoRet == [kind |-> "none", obj |-> 0, val |-> <<>>]
NullRef == [kind |-> "null", obj |-> 0, val |-> <<>>]
CFObj(i) == [kind |-> "cf", obj |-> i, val |-> <<>>]
RealValue(v) == [kind |-> "real", obj |-> 0, val |-> v]

\* The real IORegistryEntryCreateCFProperty: the registry holds the platform
\* UUID and the serial number of each entry; every other key, and a null
\* key, yields a null result.
OriginalFn(a) ==
    IF a.key \in {"kTarget", "kSerial"}
    THEN RealValue(<<a.entry, a.key>>)
    ELSE NullRef

\* ------------------------------------------------------------- state
VARIABLES
    initPc,            \* position of the constructor init()
    rebindStatus,      \* what rebind_symbols returned
    importEntry,       \* where the import entry of the target symbol points
    ORIGINAL_FUNC_PTR_RAW,
    ORIGINAL_IOREGISTRYENTRYCREATECFPROPERTY,
    diag,              \* lines written to stderr
    SPOOFED_UUID_CFSTRING,   \* Option<MySafeCFStringRef> inside the Mutex
    mutex,             \* holder of the Mutex, 0 when free
    heap,              \* CFStrings created by this library: [rc, text]
    held,              \* per heap object: handles callers keep for later
    pc,                \* per thread: position of its call
    args,              \* per thread: arguments of its call
    ret,               \* per thread: value its call returned
    origCalls,         \* per thread: argument lists the original received
    localObj,          \* per thread: cf_string_wrapper.0 / new_cf_string
    issued,            \* handles returned by get_spoofed_uuid_cfstring
    released           \* handles released by callers

vars ==
    <<initPc, rebindStatus, importEntry, ORIGINAL_FUNC_PTR_RAW,
      ORIGINAL_IOREGISTRYENTRYCREATECFPROPERTY, diag, SPOOFED_UUID_CFSTRING,
      mutex, heap, held, pc, args, ret, origCalls, localObj, issued,
      released>>

initVars ==
    <<initPc, rebindStatus, importEntry, ORIGINAL_FUNC_PTR_RAW,
      ORIGINAL_IOREGISTRYENTRYCREATECFPROPERTY, diag>>
cacheVars == <<SPOOFED_UUID_CFSTRING, mutex, heap, held, issued, released>>
threadVars == <<pc, args, ret, origCalls, localObj>>

NoObj == [some |-> FALSE, obj |-> 0]
SomeObj(i) == [some |-> TRUE, obj |-> i]

Init ==
    /\ initPc = "start"
    /\ rebindStatus = 0
    /\ importEntry = OriginalFnAddr
    /\ ORIGINAL_FUNC_PTR_RAW = NullPtr
    /\ ORIGINAL_IOREGISTRYENTRYCREATECFPROPERTY = None
    /\ diag = <<>>
    /\ SPOOFED_UUID_CFSTRING = NoObj
    /\ mutex = 0
    /\ heap = <<>>
    /\ held = <<>>
    /\ pc = [t \in Threads |-> "idle"]
    /\ args = [t \in Threads |-> NoArgs]
    /\ ret = [t \in Threads |-> NoRet]
    /\ origCalls = [t \in Threads |-> <<>>]
    /\ localObj = [t \in Threads |-> 0]
    /\ issued = 0
    /\ released = 0

\* A panic inside the extern "C" replacement aborts the whole process.
Aborted == \E t \in Threads : pc[t] = "panicked"

\* ------------------------------------------------------------- init()
\* What rebind_symbols can do: patch the import entry and hand back the
\* address it held, find no such symbol, or be refused the patch.
RebindOutcomes ==
    {[status |-> 0, replaced |-> OriginalFnAddr, patched |-> TRUE],
     [status |-> 0, replaced |-> NullPtr, patched |-> FALSE],
     [status |-> -1, replaced |-> NullPtr, patched |-> FALSE]}

\* rebind_symbols(rebindings.as_mut_ptr(), 1)
rebind_symbols(o) ==
    /\ rebindStatus' = o.status
    /\ ORIGINAL_FUNC_PTR_RAW' = o.replaced
    /\ importEntry' = IF o.patched THEN ReplacementFnAddr ELSE importEntry

InitRebind ==
    /\ ~Aborted
    /\ initPc = "start"
    /\ \E o \in RebindOutcomes : rebind_symbols(o)
    /\ initPc' = "rebound"
    /\ UNCHANGED <<ORIGINAL_IOREGISTRYENTRYCREATECFPROPERTY, diag>>
    /\ UNCHANGED <<cacheVars, threadVars>>

\* rebind_symbols returned 0 and the raw pointer is set: publish it.
InitStoreOriginal ==
    /\ ~Aborted
    /\ initPc = "rebound"
    /\ rebindStatus = 0
    /\ ORIGINAL_FUNC_PTR_RAW # NullPtr
    /\ ORIGINAL_IOREGISTRYENTRYCREATECFPROPERTY' = Some(ORIGINAL_FUNC_PTR_RAW)
    /\ initPc' = "done"
    /\ UNCHANGED <<rebindStatus, importEntry, ORIGINAL_FUNC_PTR_RAW, diag>>
    /\ UNCHANGED <<cacheVars, threadVars>>

\* Mutant of InitNoOriginal: the null check is missing and the null raw
\* pointer is published as the original.
InitNoOriginal_Unchecked ==
    /\ ~Aborted
    /\ initPc = "rebound"
    /\ rebindStatus = 0
    /\ ORIGINAL_FUNC_PTR_RAW = NullPtr
    /\ ORIGINAL_IOREGISTRYENTRYCREATECFPROPERTY' = Some(ORIGINAL_FUNC_PTR_RAW)
    /\ initPc' = "done"
    /\ UNCHANGED <<rebindStatus, importEntry, ORIGINAL_FUNC_PTR_RAW, diag>>
    /\ UNCHANGED <<cacheVars, threadVars>>

\* rebind_symbols returned 0 but the raw pointer is still null.
InitNoOriginal ==
    /\ ~Aborted
    /\ initPc = "rebound"
    /\ rebindStatus = 0
    /\ ORIGINAL_FUNC_PTR_RAW = NullPtr
    /\ diag' = Append(diag, "fishhook succeeded but did not return original function pointer")
    /\ initPc' = "done"
    /\ UNCHANGED <<rebindStatus, importEntry, ORIGINAL_FUNC_PTR_RAW,
                   ORIGINAL_IOREGISTRYENTRYCREATECFPROPERTY>>
    /\ UNCHANGED <<cacheVars, threadVars>>

\* Mutant of InitHookFailed: the failure is not reported.
InitHookFailed_Silent ==
    /\ ~Aborted
    /\ initPc = "rebound"
    /\ rebindStatus # 0
    /\ initPc' = "done"
    /\ UNCHANGED <<rebindStatus, importEntry, ORIGINAL_FUNC_PTR_RAW,
                   ORIGINAL_IOREGISTRYENTRYCREATECFPROPERTY, diag>>
    /\ UNCHANGED <<cacheVars, threadVars>>

\* rebind_symbols returned non-zero.
InitHookFailed ==
    /\ ~Aborted
    /\ initPc = "rebound"
    /\ rebindStatus # 0
    /\ diag' = Append(diag, "Failed to hook IORegistryEntryCreateCFProperty using fishhook")
    /\ initPc' = "done"
    /\ UNCHANGED <<rebindStatus, importEntry, ORIGINAL_FUNC_PTR_RAW,
                   ORIGINAL_IOREGISTRYENTRYCREATECFPROPERTY>>
    /\ UNCHANGED <<cacheVars, threadVars>>

init == InitRebind \/ InitStoreOriginal \/ InitNoOriginal \/ InitHookFailed

\* ------------------------------------------- the application's call
\* Threads inside the replacement or inside get_spoofed_uuid_cfstring.
InFlight ==
    {t \in Threads : pc[t] \in {"dispatch", "lock", "check", "hit", "create", "created"}}

\* A thread calls IORegistryEntryCreateCFProperty through the import
\* entry: it reaches the real function while the entry is not patched and
\* the replacement once it is.
Call(t, a) ==
    /\ ~Aborted
    /\ pc[t] = "idle"
    /\ issued + Cardinality(InFlight) < MaxIssued
    /\ args' = [args EXCEPT ![t] = a]
    /\ IF importEntry = ReplacementFnAddr
       THEN /\ pc' = [pc EXCEPT ![t] = "dispatch"]
            /\ UNCHANGED <<ret, origCalls>>
       ELSE /\ pc' = [pc EXCEPT ![t] = "returnedDirect"]
            /\ ret' = [ret EXCEPT ![t] = OriginalFn(a)]
            /\ origCalls' = [origCalls EXCEPT ![t] = Append(@, a)]
    /\ UNCHANGED <<initVars, cacheVars, localObj>>

\* ------------------------- replaced_IORegistryEntryCreateCFProperty
\* got_c_str and rust_key_str of a non-null key.
KeyConversion(k) == CFStringGetCString(KeyText(k), BufferSize)

\* rust_key_str: lossy decoding of the C string in the buffer.  The bytes
\* come from a strict UTF-8 encoder and a NUL never lies inside a
\* character, so the decoding replaces nothing.
RustKeyStr(buffer) == CStrFromPtr(buffer)

\* rust_key_str == IO_PLATFORM_UUID_KEY_STR
KeyEquals(rust_key_str) ==
    rust_key_str = Utf8Encode(IO_PLATFORM_UUID_KEY_STR).bytes

\* The decision of the replacement for every key reference: a null key is
\* delegated before any conversion, a failed conversion is delegated, and
\* otherwise the decoded buffer is compared with the target key.  The
\* decision depends on the key alone, so it is tabulated once.
KeyMatchesTable ==
    [k \in KeyRefs |->
        /\ k # NullPtr
        /\ KeyConversion(k).ok
        /\ KeyEquals(RustKeyStr(KeyConversion(k).buffer))]

\* The decision of the replacement for key reference k.
KeyMatches(k) == KeyMatchesTable[k]

\* Mutant of CallOriginal: the options are not passed on.
CallOriginal_DefaultOptions(t) ==
    IF ORIGINAL_IOREGISTRYENTRYCREATECFPROPERTY.some
    THEN /\ pc' = [pc EXCEPT ![t] = "returned"]
         /\ ret' = [ret EXCEPT ![t] = OriginalFn([args[t] EXCEPT !.options = 0])]
         /\ origCalls' = [origCalls EXCEPT
                             ![t] = Append(@, [args[t] EXCEPT !.options = 0])]
    ELSE /\ pc' = [pc EXCEPT ![t] = "panicked"]
         /\ UNCHANGED <<ret, origCalls>>

\* ORIGINAL_IOREGISTRYENTRYCREATECFPROPERTY.unwrap()(entry, key, allocator,
\* options): a panic when the option is None, else the call.
CallOriginal(t) ==
    IF ORIGINAL_IOREGISTRYENTRYCREATECFPROPERTY.some
    THEN /\ pc' = [pc EXCEPT ![t] = "returned"]
         /\ ret' = [ret EXCEPT ![t] = OriginalFn(args[t])]
         /\ origCalls' = [origCalls EXCEPT ![t] = Append(@, args[t])]
    ELSE /\ pc' = [pc EXCEPT ![t] = "panicked"]
         /\ UNCHANGED <<ret, origCalls>>

\* Mutant of DispatchNullKey: the cache lock is taken on entry and still
\* held while the original runs.
DispatchNullKey_Locked(t) ==
    /\ ~Aborted
    /\ pc[t] = "dispatch"
    /\ args[t].key = NullPtr
    /\ mutex = 0
    /\ mutex' = t
    /\ CallOriginal(t)
    /\ UNCHANGED <<initVars, SPOOFED_UUID_CFSTRING, heap, held, issued, released>>
    /\ UNCHANGED <<args, localObj>>

\* if key.is_null() { return original(...) }
DispatchNullKey(t) ==
    /\ ~Aborted
    /\ pc[t] = "dispatch"
    /\ args[t].key = NullPtr
    /\ CallOriginal(t)
    /\ UNCHANGED <<initVars, cacheVars, args, localObj>>

\* Mutant of DispatchMatch: only calls with options 0 are answered from
\* the cache, the others are passed to the original.
DispatchMatch_OnlyDefaultOptions(t) ==
    /\ ~Aborted
    /\ pc[t] = "dispatch"
    /\ args[t].key # NullPtr
    /\ KeyMatches(args[t].key)
    /\ IF args[t].options = 0
       THEN /\ pc' = [pc EXCEPT ![t] = "lock"]
            /\ UNCHANGED <<ret, origCalls>>
       ELSE CallOriginal(t)
    /\ UNCHANGED <<initVars, cacheVars, args, localObj>>

\* Mutant of DispatchMatch: the original is called before the cache is used.
DispatchMatch_CallsOriginal(t) ==
    /\ ~Aborted
    /\ pc[t] = "dispatch"
    /\ args[t].key # NullPtr
    /\ KeyMatches(args[t].key)
    /\ pc' = [pc EXCEPT ![t] = "lock"]
    /\ origCalls' = [origCalls EXCEPT ![t] = Append(@, args[t])]
    /\ UNCHANGED <<initVars, cacheVars, args, ret, localObj>>

\* got_c_str && rust_key_str == IO_PLATFORM_UUID_KEY_STR
DispatchMatch(t) ==
    /\ ~Aborted
    /\ pc[t] = "dispatch"
    /\ args[t].key # NullPtr
    /\ KeyMatches(args[t].key)
    /\ pc' = [pc EXCEPT ![t] = "lock"]
    /\ UNCHANGED <<initVars, cacheVars, args, ret, origCalls, localObj>>

\* Mutant of DispatchDelegate: the option is emptied by the call
\* (Option::take in place of a copy of the function pointer).
DispatchDelegate_Take(t) ==
    /\ ~Aborted
    /\ pc[t] = "dispatch"
    /\ args[t].key # NullPtr
    /\ ~KeyMatches(args[t].key)
    /\ CallOriginal(t)
    /\ ORIGINAL_IOREGISTRYENTRYCREATECFPROPERTY' = None
    /\ UNCHANGED <<initPc, rebindStatus, importEntry, ORIGINAL_FUNC_PTR_RAW, diag>>
    /\ UNCHANGED <<cacheVars, args, localObj>>

\* Conversion failed or the key differs: call the original.
DispatchDelegate(t) ==
    /\ ~Aborted
    /\ pc[t] = "dispatch"
    /\ args[t].key # NullPtr
    /\ ~KeyMatches(args[t].key)
    /\ CallOriginal(t)
    /\ UNCHANGED <<initVars, cacheVars, args, localObj>>

replaced_IORegistryEntryCreateCFProperty(t) ==
    DispatchNullKey(t) \/ DispatchMatch(t) \/ DispatchDelegate(t)

\* ------------------------------------------ get_spoofed_uuid_cfstring
\* CFRetain(cf)
CFRetain(h, i) == [h EXCEPT ![i].rc = @ + 1]

\* CFRelease(cf): the object is destroyed when its count reaches zero.
CFRelease(h, i) ==
    IF h[i].rc <= 1
    THEN [h EXCEPT ![i] = [rc |-> 0, text |-> <<>>]]
    ELSE [h EXCEPT ![i].rc = @ - 1]

\* Mutant of CFStringCreateWithCString: the last character is lost.
CFStringCreateWithCString_Short(cstr) ==
    [rc |-> 1,
     text |-> SubSeq(CFStringTextOfCString(cstr), 1,
                     Len(CFStringTextOfCString(cstr)) - 1)]

\* CFStringCreateWithCString(kCFAllocatorDefault, c_str.as_ptr(), UTF8):
\* a new CFString with retain count 1.
CFStringCreateWithCString(cstr) == [rc |-> 1, text |-> CFStringTextOfCString(cstr)]

\* Mutant of LockCache: the cache is entered without waiting for the lock.
LockCache_NoExclusion(t) ==
    /\ ~Aborted
    /\ pc[t] = "lock"
    /\ mutex' = t
    /\ pc' = [pc EXCEPT ![t] = "check"]
    /\ UNCHANGED <<initVars, SPOOFED_UUID_CFSTRING, heap, held, issued, released>>
    /\ UNCHANGED <<args, ret, origCalls, localObj>>

\* SPOOFED_UUID_CFSTRING.lock().unwrap()
LockCache(t) ==
    /\ ~Aborted
    /\ pc[t] = "lock"
    /\ mutex = 0
    /\ mutex' = t
    /\ pc' = [pc EXCEPT ![t] = "check"]
    /\ UNCHANGED <<initVars, SPOOFED_UUID_CFSTRING, heap, held, issued, released>>
    /\ UNCHANGED <<args, ret, origCalls, localObj>>

\* Mutant of CheckCache: the stored instance is ignored.
CheckCache_AlwaysMiss(t) ==
    /\ ~Aborted
    /\ pc[t] = "check"
    /\ pc' = [pc EXCEPT ![t] = "create"]
    /\ UNCHANGED localObj
    /\ UNCHANGED <<initVars, cacheVars, args, ret, origCalls>>

\* if let Some(cf_string_wrapper) = &*locked_spoofed_uuid
CheckCache(t) ==
    /\ ~Aborted
    /\ pc[t] = "check"
    /\ IF SPOOFED_UUID_CFSTRING.some
       THEN /\ localObj' = [localObj EXCEPT ![t] = SPOOFED_UUID_CFSTRING.obj]
            /\ pc' = [pc EXCEPT ![t] = "hit"]
       ELSE /\ pc' = [pc EXCEPT ![t] = "create"]
            /\ UNCHANGED localObj
    /\ UNCHANGED <<initVars, cacheVars, args, ret, origCalls>>

\* Leaving get_spoofed_uuid_cfstring with value v: the MutexGuard is
\* dropped and the replacement hands v to its caller.
ReturnHandle(t, v) ==
    /\ ret' = [ret EXCEPT ![t] = v]
    /\ issued' = issued + 1
    /\ mutex' = IF mutex = t THEN 0 ELSE mutex
    /\ pc' = [pc EXCEPT ![t] = "returned"]
    /\ localObj' = [localObj EXCEPT ![t] = 0]

\* Mutant of ReturnCached: the stored reference is returned as it is.
ReturnCached_NoRetain(t) ==
    /\ ~Aborted
    /\ pc[t] = "hit"
    /\ ReturnHandle(t, CFObj(localObj[t]))
    /\ UNCHANGED <<initVars, SPOOFED_UUID_CFSTRING, heap, held, released>>
    /\ UNCHANGED <<args, origCalls>>

\* return CFRetain(cf_string_wrapper.0)
ReturnCached(t) ==
    /\ ~Aborted
    /\ pc[t] = "hit"
    /\ heap' = CFRetain(heap, localObj[t])
    /\ ReturnHandle(t, CFObj(localObj[t]))
    /\ UNCHANGED <<initVars, SPOOFED_UUID_CFSTRING, held, released>>
    /\ UNCHANGED <<args, origCalls>>

\* Create the CFString and store it: *locked_spoofed_uuid = Some(...)
CreateAndStore(t) ==
    /\ ~Aborted
    /\ pc[t] = "create"
    /\ heap' = Append(heap, CFStringCreateWithCString(CStringNew(SPOOFED_UUID_STR)))
    /\ held' = Append(held, 0)
    /\ SPOOFED_UUID_CFSTRING' = SomeObj(Len(heap) + 1)
    /\ localObj' = [localObj EXCEPT ![t] = Len(heap) + 1]
    /\ pc' = [pc EXCEPT ![t] = "created"]
    /\ UNCHANGED <<initVars, mutex, issued, released, args, ret, origCalls>>

\* Mutant of ReturnNew: the first caller gets the cache's own reference.
ReturnNew_NoRetain(t) ==
    /\ ~Aborted
    /\ pc[t] = "created"
    /\ ReturnHandle(t, CFObj(localObj[t]))
    /\ UNCHANGED <<initVars, SPOOFED_UUID_CFSTRING, heap, held, released>>
    /\ UNCHANGED <<args, origCalls>>

\* (CFRetain(new_cf_string)) as the value of the function
ReturnNew(t) ==
    /\ ~Aborted
    /\ pc[t] = "created"
    /\ heap' = CFRetain(heap, localObj[t])
    /\ ReturnHandle(t, CFObj(localObj[t]))
    /\ UNCHANGED <<initVars, SPOOFED_UUID_CFSTRING, held, released>>
    /\ UNCHANGED <<args, origCalls>>

get_spoofed_uuid_cfstring(t) ==
    \/ LockCache(t)
    \/ CheckCache(t)
    \/ ReturnCached(t)
    \/ CreateAndStore(t)
    \/ ReturnNew(t)

\* ------------------------------------- what callers do with a result
\* The caller is done with the call and keeps what it got.
Keep(t) ==
    /\ ~Aborted
    /\ pc[t] \in {"returned", "returnedDirect"}
    /\ held' = IF ret[t].kind = "cf"
               THEN [held EXCEPT ![ret[t].obj] = @ + 1]
               ELSE held
    /\ pc' = [pc EXCEPT ![t] = "idle"]
    /\ args' = [args EXCEPT ![t] = NoArgs]
    /\ ret' = [ret EXCEPT ![t] = NoRet]
    /\ origCalls' = [origCalls EXCEPT ![t] = <<>>]
    /\ UNCHANGED <<initVars, SPOOFED_UUID_CFSTRING, mutex, heap, issued, released>>
    /\ UNCHANGED localObj

\* The caller releases the CFString it was given right after using it.
ReleaseResult(t) ==
    /\ ~Aborted
    /\ pc[t] = "returned"
    /\ ret[t].kind = "cf"
    /\ heap' = CFRelease(heap, ret[t].obj)
    /\ released' = released + 1
    /\ pc' = [pc EXCEPT ![t] = "idle"]
    /\ args' = [args EXCEPT ![t] = NoArgs]
    /\ ret' = [ret EXCEPT ![t] = NoRet]
    /\ origCalls' = [origCalls EXCEPT ![t] = <<>>]
    /\ UNCHANGED <<initVars, SPOOFED_UUID_CFSTRING, mutex, held, issued>>
    /\ UNCHANGED localObj

\* A caller releases a handle it kept from an earlier call.
ReleaseHeld(i) ==
    /\ ~Aborted
    /\ i \in 1..Len(held)
    /\ held[i] > 0
    /\ heap' = CFRelease(heap, i)
    /\ held' = [held EXCEPT ![i] = @ - 1]
    /\ released' = released + 1
    /\ UNCHANGED <<initVars, SPOOFED_UUID_CFSTRING, mutex, issued>>
    /\ UNCHANGED threadVars

\* ------------------------------------------------------ specification
Next ==
    \/ InitRebind
    \/ InitStoreOriginal
    \/ InitNoOriginal
    \/ InitHookFailed
    \/ \E t \in Threads, a \in Inputs : Call(t, a)
    \/ \E t \in Threads : DispatchNullKey(t)
    \/ \E t \in Threads : DispatchMatch(t)
    \/ \E t \in Threads : DispatchDelegate(t)
    \/ \E t \in Threads : LockCache(t)
    \/ \E t \in Threads : CheckCache(t)
    \/ \E t \in Threads : ReturnCached(t)
    \/ \E t \in Threads : CreateAndStore(t)
    \/ \E t \in Threads : ReturnNew(t)
    \/ \E t \in Threads : Keep(t)
    \/ \E t \in Threads : ReleaseResult(t)
    \/ \E i \in 1..Len(held) : ReleaseHeld(i)

Spec == Init /\ [][Next]_vars

\* The same program under a fair scheduler: init() and every thread that is
\* inside the replacement or the cache keep being scheduled.  Callers are
\* not obliged to make calls or to release what they hold.
FairSpec ==
    /\ Spec
    /\ WF_vars(init)
    /\ \A t \in Threads :
          WF_vars(replaced_IORegistryEntryCreateCFProperty(t)
                    \/ get_spoofed_uuid_cfstring(t))

\* ---------------------------------------------------------- properties
\* Threads whose call went through the replacement and has returned.
ReturnedFromHook(t) == pc[t] = "returned"

\* The key of t's call has exactly the text "IOPlatformUUID".
ExactTargetKey(t) ==
    /\ args[t].key # NullPtr
    /\ KeyText(args[t].key) = IO_PLATFORM_UUID_KEY_STR

\* The canonical entry as stored in the cache.
Canonical == heap[SPOOFED_UUID_CFSTRING.obj]

\* Handles callers hold: kept for later, or just returned to them.
HeldBy(i) ==
    held[i] + Cardinality({t \in Threads :
                              pc[t] = "returned" /\ ret[t] = CFObj(i)})

\* C1: in no reachable state does the import entry point at the
\* replacement while the captured original address is still None.
C1_PatchedImpliesCaptured ==
    importEntry = ReplacementFnAddr
        => ORIGINAL_IOREGISTRYENTRYCREATECFPROPERTY.some

\* init() learnt from rebind_symbols that the hook is not in place.
InstallFailed ==
    /\ initPc \in {"rebound", "done"}
    /\ (rebindStatus # 0 \/ ORIGINAL_FUNC_PTR_RAW = NullPtr)

\* C2: once install has failed the captured original address stays None,
\* the import entry stays with the real function and no thread is ever
\* inside the replacement, so none unwraps the empty option.
C2_FailOpen ==
    InstallFailed =>
        /\ ORIGINAL_IOREGISTRYENTRYCREATECFPROPERTY = None
        /\ importEntry = OriginalFnAddr
        /\ \A t \in Threads : pc[t] \in {"idle", "returnedDirect"}
        /\ \A t \in Threads :
              pc[t] = "returnedDirect" =>
                  ret[t] = OriginalFn(args[t]) /\ origCalls[t] = <<args[t]>>

\* A call answered by the real function after init() gave up.
C2_Witness ==
    /\ InstallFailed
    /\ initPc = "done"
    /\ Len(diag) = 1
    /\ \E t \in Threads :
          /\ pc[t] = "returnedDirect"
          /\ args[t].key = "kTarget"
          /\ ret[t] = OriginalFn(args[t])

\* C3: armed, a call whose key is null, cannot be converted, or has a text
\* other than "IOPlatformUUID" returns what the original returns.
C3_ExactMatchOnly ==
    \A t \in Threads :
        ( /\ ReturnedFromHook(t)
          /\ ORIGINAL_IOREGISTRYENTRYCREATECFPROPERTY.some
          /\ ~ExactTargetKey(t) )
        => ret[t] = OriginalFn(args[t])

\* C4: a returned call with the exact key holds a live CFString whose text
\* is the 36-character payload.
C4_MatchReturnsPayload ==
    \A t \in Threads :
        (ReturnedFromHook(t) /\ ExactTargetKey(t)) =>
            /\ ret[t].kind = "cf"
            /\ ret[t].obj \in 1..Len(heap)
            /\ heap[ret[t].obj].rc >= 1
            /\ heap[ret[t].obj].text = SPOOFED_UUID_STR
            /\ Len(heap[ret[t].obj].text) = 36

\* Two concurrent callers, the first and a later one, both answered.
C4_Witness ==
    /\ issued = 2
    /\ \A t \in {1, 2} : ReturnedFromHook(t) /\ ExactTargetKey(t)
    /\ ret[1] = ret[2]

\* C5: a call with the exact key never reaches the original, neither while
\* it is inside the replacement nor when it has returned.
C5_MatchNeverCallsOriginal ==
    \A t \in Threads :
        ( /\ pc[t] \in {"lock", "check", "hit", "create", "created", "returned"}
          /\ ExactTargetKey(t) )
        => origCalls[t] = <<>>

\* A matching call has returned in the armed state.
C5_Witness ==
    \E t \in Threads :
        /\ ReturnedFromHook(t)
        /\ ExactTargetKey(t)
        /\ ORIGINAL_IOREGISTRYENTRYCREATECFPROPERTY.some
        /\ origCalls[t] = <<>>

\* C6: at most one CFString is ever created, exactly one once a handle was
\* issued, and the check and the construction run under the lock.
C6_OneConstruction ==
    /\ Len(heap) <= 1
    /\ issued >= 1 => Len(heap) = 1
    /\ SPOOFED_UUID_CFSTRING.some <=> Len(heap) = 1
    /\ \A t \in Threads :
          pc[t] \in {"check", "hit", "create", "created"} => mutex = t

\* Every thread is inside acquire() and the cache is still empty: one
\* constructs, the others wait for the lock.
C6_Witness ==
    /\ ~SPOOFED_UUID_CFSTRING.some
    /\ \E t \in Threads :
          /\ pc[t] = "create"
          /\ \A u \in Threads \ {t} : pc[u] = "lock"

\* C7: the canonical entry stays alive with the payload as its text,
\* also when every handle issued so far has been released, and a handle
\* returned after that is a handle to it.
C7_IdempotentCaching ==
    /\ SPOOFED_UUID_CFSTRING.some =>
          Canonical.rc >= 1 /\ Canonical.text = SPOOFED_UUID_STR
    /\ (issued >= 1 /\ released = issued) =>
          /\ SPOOFED_UUID_CFSTRING.some
          /\ Canonical.rc = 1
          /\ Canonical.text = SPOOFED_UUID_STR
    /\ \A t \in Threads :
          (ReturnedFromHook(t) /\ ret[t].kind = "cf") =>
              /\ ret[t].obj = SPOOFED_UUID_CFSTRING.obj
              /\ heap[ret[t].obj].rc >= 2
              /\ heap[ret[t].obj].text = SPOOFED_UUID_STR

\* All handles issued before were released, then acquire() ran again.
C7_Witness ==
    /\ issued = 2
    /\ released = 1
    /\ \E t \in Threads : ReturnedFromHook(t) /\ ret[t].kind = "cf"
    /\ \A i \in 1..Len(held) : held[i] = 0
    /\ \A u \in Threads : pc[u] \in {"idle", "returned"}

\* C8: while the canonical entry exists its count is 1 + issued - released,
\* and issued - released is the number of handles callers hold.
C8_RefCountAccounting ==
    SPOOFED_UUID_CFSTRING.some =>
        /\ Canonical.rc = 1 + issued - released
        /\ released <= issued
        /\ HeldBy(SPOOFED_UUID_CFSTRING.obj) = issued - released

\* Right after the call that constructs the entry: count 2, one handle.
C8_Witness ==
    /\ SPOOFED_UUID_CFSTRING.some
    /\ issued = 1
    /\ released = 0
    /\ Canonical.rc = 2

\* C9: once present the cache entry is never cleared or replaced, nothing
\* is constructed again, and every returned handle is the stored instance.
C9_ConstructOnce ==
    [][ /\ SPOOFED_UUID_CFSTRING.some =>
              /\ SPOOFED_UUID_CFSTRING' = SPOOFED_UUID_CFSTRING
              /\ Len(heap') = Len(heap)
        /\ \A t \in Threads :
              (pc'[t] = "returned" /\ ret'[t].kind = "cf") =>
                  /\ SPOOFED_UUID_CFSTRING'.some
                  /\ ret'[t].obj = SPOOFED_UUID_CFSTRING'.obj ]_vars

\* A handle from an earlier call is still held when a later call returns.
C9_Witness ==
    /\ SPOOFED_UUID_CFSTRING.some
    /\ held[SPOOFED_UUID_CFSTRING.obj] = 1
    /\ \E t \in Threads :
          ReturnedFromHook(t) /\ ret[t] = CFObj(SPOOFED_UUID_CFSTRING.obj)

\* C10: a call the replacement delegated reached the original exactly once,
\* with the four arguments it was made with; no call through the
\* replacement reaches it twice or with other arguments.
C10_DelegatesUnchanged ==
    \A t \in Threads :
        /\ (ReturnedFromHook(t) /\ ~KeyMatches(args[t].key)) =>
              origCalls[t] = <<args[t]>>
        /\ pc[t] \in {"dispatch", "returned", "panicked"} =>
              origCalls[t] \in {<<>>, <<args[t]>>}

\* Delegations with non-default arguments: a null key on one thread, a key
\* that cannot be converted or does not match on the other.
C10_Witness ==
    \E t, u \in Threads :
        /\ ReturnedFromHook(t) /\ args[t].key = NullPtr
        /\ ReturnedFromHook(u) /\ args[u].key \in {"kSurrogate", "kSerial"}
        /\ args[t].options = 1 /\ args[u].options = 1
        /\ origCalls[t] = <<args[t]>> /\ origCalls[u] = <<args[u]>>

\* Threads that passed the decision of the replacement without a panic.
PastDecision(t) ==
    pc[t] \in {"lock", "check", "hit", "create", "created", "returned"}

\* C11: a call that finds the captured original address empty when the
\* replacement decides ends in the fatal panic, whatever its key: no thread
\* gets past the decision while the option is None.
C11_UninitializedIsFatal ==
    \A t \in Threads :
        PastDecision(t) => ORIGINAL_IOREGISTRYENTRYCREATECFPROPERTY.some

\* C12: the captured original address changes only from None to Some, only
\* in the step of init() that ends it, and never once it is Some.
C12_WriteOnce ==
    [][ ORIGINAL_IOREGISTRYENTRYCREATECFPROPERTY'
            # ORIGINAL_IOREGISTRYENTRYCREATECFPROPERTY
        => /\ ORIGINAL_IOREGISTRYENTRYCREATECFPROPERTY = None
           /\ ORIGINAL_IOREGISTRYENTRYCREATECFPROPERTY'.some
           /\ ORIGINAL_IOREGISTRYENTRYCREATECFPROPERTY'.fn = ORIGINAL_FUNC_PTR_RAW
           /\ initPc = "rebound" /\ initPc' = "done"
           /\ UNCHANGED <<cacheVars, threadVars>> ]_vars

\* The option is populated and calls of both kinds have read or passed it.
C12_Witness ==
    /\ ORIGINAL_IOREGISTRYENTRYCREATECFPROPERTY = Some(OriginalFnAddr)
    /\ initPc = "done"
    /\ \E t, u \in Threads :
          /\ ReturnedFromHook(t) /\ origCalls[t] = <<args[t]>>
          /\ ReturnedFromHook(u) /\ ret[u].kind = "cf"

\* C14 as stated: every finished run of init() has written exactly one
\* diagnostic line.
C14_OneLinePerRun == initPc = "done" => Len(diag) = 1

\* C14 as the code has it: one line when the install failed, none when it
\* succeeded, nothing before init() ends and never two.
C14_OneLineOnFailureOnly ==
    /\ Len(diag) <= 1
    /\ initPc # "done" => diag = <<>>
    /\ initPc = "done" => Len(diag) = (IF InstallFailed THEN 1 ELSE 0)

\* init() has ended with the hook in place and has written nothing.
C14_Witness ==
    /\ initPc = "done"
    /\ ~InstallFailed
    /\ ORIGINAL_IOREGISTRYENTRYCREATECFPROPERTY = Some(OriginalFnAddr)
    /\ importEntry = ReplacementFnAddr
    /\ diag = <<>>

\* C15: the step in which the replacement delegates (or panics) is taken by
\* a thread that does not hold the cache lock and leaves the lock, the
\* stored instance and every reference count as they were; the original is
\* never entered by the holder of the lock, and only matching calls hold it.
C15_DelegationLeavesCacheAlone ==
    [][ \A t \in Threads :
          /\ (pc[t] = "dispatch" /\ pc'[t] \in {"returned", "panicked"}) =>
                /\ mutex # t
                /\ UNCHANGED <<SPOOFED_UUID_CFSTRING, mutex, heap, issued>>
          /\ origCalls'[t] # origCalls[t] => (mutex # t /\ mutex' # t)
          /\ mutex' = t => KeyMatches(args'[t].key) ]_vars

\* A call is delegated and returns while another thread holds the lock and
\* the canonical entry is not constructed yet.
C15_Witness ==
    \E t, u \in Threads :
        /\ ReturnedFromHook(t)
        /\ ~KeyMatches(args[t].key)
        /\ origCalls[t] = <<args[t]>>
        /\ mutex = u
        /\ pc[u] = "create"
        /\ ~SPOOFED_UUID_CFSTRING.some
        /\ heap = <<>>

\* C16: what a call with the exact key returns is the one stored CFString
\* with the payload as its text, whatever entry, allocator and options it
\* carries and whatever the original would return for them: any two such
\* calls get the same value, and none gets the original's value.
C16_MatchIndependentOfOriginal ==
    \A t, u \in Threads :
        ( /\ ReturnedFromHook(t) /\ ExactTargetKey(t)
          /\ ReturnedFromHook(u) /\ ExactTargetKey(u) )
        => /\ ret[t] = ret[u]
           /\ ret[t].kind = "cf"
           /\ ret[t] # OriginalFn(args[t])
           /\ ret[t].val = <<>>
           /\ heap[ret[t].obj].text = heap[ret[u].obj].text
           /\ heap[ret[t].obj].text = SPOOFED_UUID_STR

\* Two calls with the exact key that differ in entry, allocator and options,
\* for which the original returns different values, and the hook in place.
C16_Witness ==
    \E t, u \in Threads :
        /\ ReturnedFromHook(t) /\ ExactTargetKey(t)
        /\ ReturnedFromHook(u) /\ ExactTargetKey(u)
        /\ args[t].entry # args[u].entry
        /\ args[t].allocator # args[u].allocator
        /\ args[t].options # args[u].options
        /\ OriginalFn(args[t]) # OriginalFn(args[u])
        /\ ORIGINAL_IOREGISTRYENTRYCREATECFPROPERTY.some
        /\ ret[t] = ret[u]

\* C13: under fair scheduling every matching call that has reached the
\* cache lock eventually returns to its caller.
C13_MatchingCallReturns ==
    \A t \in Threads : (pc[t] = "lock") ~> (pc[t] = "returned")

\* The lock itself never keeps a matching call from returning: a call at
\* the lock returns unless the process has been aborted meanwhile.
LockNeverBlocksForever ==
    \A t \in Threads : (pc[t] = "lock") ~> (pc[t] = "returned" \/ Aborted)

====
